---- MODULE Spec2Model ----
(***************************************************************************)
(* A model of the search_that plugin (src/main.py): the code normalizer,   *)
(* the concurrent category crawl, filtering / ranking / merging, the cover *)
(* step, the actress lookup and the life cycle of the shared HTTP client.  *)
(*                                                                         *)
(* Strings.  A text the code only tests with "in", prefixes or splits is a *)
(* sequence of tokens; a user text that the regular expressions of         *)
(* _separate scan is a sequence of one-character strings.  The module is   *)
(* ASCII, so the Chinese literals of the source are written in pinyin:     *)
(*   "[zhongzi]"      the tag of main.py:229  (subtitled)                  *)
(*   "[pojie]"        the tag of main.py:231  (decensored)                 *)
(*   "wuma_pojie"     the literal of main.py:168, 241 (first one)          *)
(*   "wuma_liuchu"    the second literal of main.py:241                    *)
(*   "wuxiuzheng"     the third literal of main.py:241                     *)
(*   "zhongwen_zimu"  the literal of main.py:168, 243                      *)
(*   "EMDASH"         the character replaced at main.py:136                *)
(***************************************************************************)
EXTENDS Integers, Sequences, FiniteSets, TLC

None == "None"

(***************************************************************************)
(* Sequence helpers.                                                       *)
(***************************************************************************)
Range(s) == {s[i] : i \in DOMAIN s}

Take(s, n) == SubSeq(s, 1, IF Len(s) < n THEN Len(s) ELSE n)

RECURSIVE Concat(_)
Concat(ss) == IF ss = <<>> THEN <<>> ELSE Head(ss) \o Concat(Tail(ss))

(***************************************************************************)
(* _separate: the four matchers of main.py:138-143 on a text of            *)
(* characters.  Every matcher starts behind a lookbehind (?<![a-z0-9]), so *)
(* a match starts where a run of letters and digits starts; its greedy     *)
(* repetitions are followed by a character class or a lookahead that the   *)
(* next character of the same run fails, so backtracking never shortens a  *)
(* repetition and the end of a match is a function of its start.           *)
(***************************************************************************)
Digits == {"0", "1", "2", "3", "4", "5", "6", "7", "8", "9"}

Letters == {"a", "b", "c", "s", "x", "A", "B", "C", "S", "X"}

Separators == {"-", "_"}

IsDigit(c) == c \in Digits

IsLetter(c) == c \in Letters

IsAlnum(c) == IsDigit(c) \/ IsLetter(c)

\* text_content.replace(EMDASH, "-")
ReplaceEmDash(text) == [i \in DOMAIN text |-> IF text[i] = "EMDASH" THEN "-" ELSE text[i]]

\* the number of consecutive digits (letters) of t from position i on
RECURSIVE DigitsFrom(_, _)
DigitsFrom(t, i) == IF i <= Len(t) /\ IsDigit(t[i]) THEN 1 + DigitsFrom(t, i + 1) ELSE 0

RECURSIVE LettersFrom(_, _)
LettersFrom(t, i) == IF i <= Len(t) /\ IsLetter(t[i]) THEN 1 + LettersFrom(t, i + 1) ELSE 0

\* (?<![a-z0-9]) at position i
LookBehind(t, i) == i = 1 \/ ~IsAlnum(t[i - 1])

\* the character at position i, or "" behind the end of the text
At(t, i) == IF i >= 1 /\ i <= Len(t) THEN t[i] ELSE ""

\* matcher 1, main.py:139: [0-9]{5,}[_-][0-9]{2,5}(?![a-z0-9]).
\* The position of the last character of the match that starts at i, or 0.
Match1(t, i) ==
    LET d == DigitsFrom(t, i)
        e == DigitsFrom(t, i + d + 1)
    IN  IF /\ LookBehind(t, i)
           /\ d >= 5
           /\ At(t, i + d) \in Separators
           /\ e >= 2 /\ e <= 5
           /\ ~IsAlnum(At(t, i + d + 1 + e))
        THEN i + d + e
        ELSE 0

\* matcher 2, main.py:140: ([0-9]*[a-z]+|[a-z]+[0-9]+[a-z]*)[_-]([a-z]*[0-9]{2,5}(?![0-9])).
Match2(t, i) ==
    LET d0 == DigitsFrom(t, i)                     \* first alternative: digits, letters
        l0 == LettersFrom(t, i + d0)
        a1 == LettersFrom(t, i)                    \* second: letters, digits, letters
        b1 == DigitsFrom(t, i + a1)
        c1 == LettersFrom(t, i + a1 + b1)
        alt1 == l0 >= 1 /\ At(t, i + d0 + l0) \in Separators
        alt2 == a1 >= 1 /\ b1 >= 1 /\ At(t, i + a1 + b1 + c1) \in Separators
        k == IF alt1 THEN i + d0 + l0 ELSE i + a1 + b1 + c1   \* the separator
        l2 == LettersFrom(t, k + 1)
        e == DigitsFrom(t, k + 1 + l2)
    IN  IF /\ LookBehind(t, i)
           /\ alt1 \/ alt2
           /\ e >= 2 /\ e <= 5
        THEN k + l2 + e
        ELSE 0

\* matcher 3, main.py:141: [a-z]+[0-9]{3,}(?![a-z0-9]).
Match3(t, i) ==
    LET a == LettersFrom(t, i)
        e == DigitsFrom(t, i + a)
    IN  IF /\ LookBehind(t, i)
           /\ a >= 1
           /\ e >= 3
           /\ ~IsAlnum(At(t, i + a + e))
        THEN i + a + e - 1
        ELSE 0

\* matcher 4, main.py:142: [0-9]{4,}(?![a-z0-9-_]).
Match4(t, i) ==
    LET e == DigitsFrom(t, i)
    IN  IF /\ LookBehind(t, i)
           /\ e >= 4
           /\ ~IsAlnum(At(t, i + e))
           /\ At(t, i + e) \notin Separators
        THEN i + e - 1
        ELSE 0

MatchAt(k, t, i) ==
    CASE k = 1 -> Match1(t, i)
      [] k = 2 -> Match2(t, i)
      [] k = 3 -> Match3(t, i)
      [] OTHER -> Match4(t, i)

\* matcher.search(text): the leftmost match, as <<first, last>>, or <<>> for None
Search(k, t) ==
    LET starts == {i \in 1..Len(t) : MatchAt(k, t, i) # 0}
    IN  IF starts = {} THEN <<>>
        ELSE LET i == CHOOSE j \in starts : \A j2 \in starts : j <= j2
             IN  <<i, MatchAt(k, t, i)>>

\* the None that _separate returns: a code is a text, and no match is empty
NoCode == <<>>

\* Matchers with the last rule tried first
MatchersReversed == <<4, 3, 2, 1>>

\* the matchers in the order of the list of main.py:138
Matchers == <<1, 2, 3, 4>>

\* the loop of main.py:145-150 from matcher index n on
RECURSIVE SeparateFrom(_, _)
SeparateFrom(t, n) ==
    IF n > Len(Matchers) THEN NoCode
    ELSE LET m == Search(Matchers[n], t)
         IN  IF m # <<>> THEN SubSeq(t, m[1], m[2]) ELSE SeparateFrom(t, n + 1)

\* _separate(text_content), main.py:129-150
Separate(text) ==
    IF text = <<>> THEN NoCode ELSE SeparateFrom(ReplaceEmDash(text), 1)

(***************************************************************************)
(* Texts of tokens.  "sub in text" (main.py:78, 168, 221, 228, ...) holds  *)
(* when a token of the text is sub or holds sub as a substring; Within     *)
(* lists the pairs <<sub, token>> of the tokens used here of which the     *)
(* first is a proper substring of the second.                              *)
(***************************************************************************)
Within ==
    { <<"chinese", "chinese_content">>,
      <<"reducing", "reducing-mosaic_content">>,
      <<"?s=", "?s=%s">>,
      <<"jav777.xyz", "www.jav777.xyz">> }

In(sub, text) == \E i \in DOMAIN text : text[i] = sub \/ <<sub, text[i]>> \in Within

\* re.IGNORECASE on the characters of a code
ToUpper(c) ==
    CASE c = "a" -> "A" [] c = "b" -> "B" [] c = "c" -> "C"
      [] c = "s" -> "S" [] c = "x" -> "X" [] OTHER -> c

EqIgnoreCase(a, b) ==
    /\ Len(a) = Len(b)
    /\ \A i \in DOMAIN a : ToUpper(a[i]) = ToUpper(b[i])

(***************************************************************************)
(* URLs and engine strings.  A URL is the sequence of its "/"-separated    *)
(* segments (url.split('/')), an engine string the sequence of its         *)
(* "#POST#"-separated parts (main.py:182): the URL template, then the      *)
(* payload template if there is one.  The code has no "/", so substituting *)
(* it for "%s" (main.py:187) keeps the segments: a request carries the     *)
(* template and the code.                                                  *)
(***************************************************************************)
Eng7mm == << <<"https:", "", "7mmtv.sx", "zh", "searchform_search", "all", "index.html">>,
             "search_keyword=%s" >>

EngSupjav == << <<"https:", "", "supjav.com", "zh", "?s=%s">> >>

\* an engine string that is no well-formed URL: no scheme, no "/"
EngBad == << <<"supjav.com?s=%s">> >>

EngJable == << <<"https:", "", "jable.tv", "search", "%s", "">> >>

EngJav777 == << <<"https:", "", "www.jav777.xyz", "?s=%s">> >>

CenEngines == {Eng7mm, EngSupjav, EngBad}

UncEngines == {EngJable, EngJav777}

\* the longest engine list of a category that the model configures
MaxEngines == 2

\* the lists of at most MaxEngines different engines of a set
EngineLists(E) ==
    UNION { {l \in [1..n -> E] : \A i, j \in 1..n : i # j => l[i] # l[j]} : n \in 0..MaxEngines }

\* main.py:184
Method(url_str) == IF Len(url_str) > 1 THEN "POST" ELSE "GET"

\* url.split('/')[2] (main.py:194, 306) raises IndexError on fewer than 3 segments
SplitRaises(url) == Len(url) < 3

\* the host of a URL: url.split('/')[2]
Domain(url) == url[3]

\* what the HTTP client accepts as a request URL
IsAbsolute(url) == Len(url) >= 3 /\ url[1] \in {"http:", "https:"}

(***************************************************************************)
(* Pages.  A search page is the sequence of its anchors in document order; *)
(* an anchor has the target (href), the title text and the code it shows,  *)
(* and a site's pattern with the escaped code (main.py:218) matches the    *)
(* anchors that show the code, ignoring case.                              *)
(***************************************************************************)
CodeABC == <<"A", "B", "C", "-", "1", "2", "3">>

CodeOther == <<"X", "X", "-", "9", "9", "9">>

Anchor(href, text, shown) == [href |-> href, text |-> text, code |-> shown]

Url7mm(kind, file) == <<"https:", "", "7mmtv.sx", "zh", kind, "1", file>>

Page7mm ==
    << Anchor(Url7mm("censored_content", "a.html"), <<"T1">>, CodeABC),
       Anchor(Url7mm("censored_content", "x.html"), <<"TX">>, CodeOther),
       Anchor(Url7mm("reducing-mosaic_content", "b.html"), <<"T2">>, CodeABC),
       Anchor(Url7mm("chinese_content", "c.html"), <<"T3", "guanggao">>, CodeABC) >>

UrlSup(file) == <<"https:", "", "supjav.com", "zh", file>>

PageSup ==
    << Anchor(UrlSup("1.html"), <<"S1", "zhongwen_zimu">>, CodeABC),
       Anchor(UrlSup("2.html"), <<"S2", "wuma_liuchu">>, CodeABC),
       Anchor(UrlSup("3.html"), <<"S3", "wuma_pojie">>, CodeABC) >>

PageJable ==
    << Anchor(<<"https:", "", "jable.tv", "videos", "abc-123", "">>, <<"J1", "guanggao">>, CodeABC),
       Anchor(<<"videos", "abc-123">>, <<"J2">>, CodeABC) >>

PageJav777 ==
    << Anchor(<<"https:", "", "www.jav777.xyz", "post", "1">>, <<"P1">>, CodeABC) >>

PageEmpty == <<>>

\* the body a site sends with a status that is not 200: an error page that
\* still shows one anchor the site's pattern matches
ErrorPage(url) ==
    CASE In("7mmtv.sx", url) -> << Anchor(Url7mm("censored_content", "e.html"), <<"E404">>, CodeABC) >>
      [] In("supjav.com", url) -> << Anchor(UrlSup("e.html"), <<"E404">>, CodeABC) >>
      [] In("jable.tv", url) -> << Anchor(<<"https:", "", "jable.tv", "e">>, <<"E404">>, CodeABC) >>
      [] OTHER -> PageEmpty

\* the bodies a site sends with status 200
OkPages(url) ==
    CASE In("7mmtv.sx", url) -> {Page7mm, PageEmpty}
      [] In("supjav.com", url) -> {PageSup, PageEmpty}
      [] In("jable.tv", url) -> {PageJable, PageEmpty}
      [] In("jav777.xyz", url) -> {PageJav777, PageEmpty}
      [] OTHER -> {PageEmpty}

(***************************************************************************)
(* _parse_html, main.py:213-302.                                           *)
(***************************************************************************)
Result(title, url) == [title |-> title, url |-> url]

\* the anchors a site's pattern matches, in document order (finditer)
Matching(html, code) == SelectSeq(html, LAMBDA a : EqIgnoreCase(a.code, code))

\* main.py:227-231: the tags of 7mmtv, by the page URL
Tag7mm(a, search_type) ==
    LET t1 == IF search_type = "cen" /\ In("chinese", a.href)
              THEN <<"[zhongzi]">> \o a.text ELSE a.text
    IN  IF search_type = "cen" /\ In("reducing", a.href)
        THEN <<"[pojie]">> \o t1 ELSE t1

\* main.py:240-244: the tags of supjav, by the title
TagSup(a, search_type) ==
    LET t1 == IF /\ search_type = "cen"
                 /\ (In("wuma_pojie", a.text) \/ In("wuma_liuchu", a.text) \/ In("wuxiuzheng", a.text))
              THEN <<"[pojie]">> \o a.text ELSE a.text
    IN  IF search_type = "cen" /\ In("zhongwen_zimu", a.text)
        THEN <<"[zhongzi]">> \o t1 ELSE t1

\* results[:5], main.py:302
MaxPerSource == 5

\* The value of _parse_html: the results, or blocked = TRUE where the jav777
\* rule waits in the event loop's own thread for a coroutine that only this
\* event loop can run (main.py:297), which never returns.
ParseHtml(final_url, html, code, search_type, client) ==
    LET m == Matching(html, code)
        out(rs) == [blocked |-> FALSE, results |-> Take(rs, MaxPerSource)]
    IN  CASE In("7mmtv.sx", final_url) ->
               out([i \in DOMAIN m |-> Result(Tag7mm(m[i], search_type), m[i].href)])
          [] In("supjav.com", final_url) ->
               out([i \in DOMAIN m |-> Result(TagSup(m[i], search_type), m[i].href)])
          [] In("jable.tv", final_url) ->
               out([i \in DOMAIN m |-> Result(m[i].text, m[i].href)])
          [] In("jav777.xyz", final_url) ->
               IF In("?s=", final_url) /\ html # <<>> /\ client # None
               THEN [blocked |-> TRUE, results |-> <<>>]
               ELSE out(<<>>)
          [] OTHER -> out(<<>>)

(***************************************************************************)
(* _search_worker's merge and ranking, main.py:165-172.                    *)
(***************************************************************************)
\* [item for sublist in results_nested for item in sublist], main.py:165
Flatten(results_nested) == Concat(results_nested)

\* sorted(all_results, key = (k1 not in title, k2 not in title)): a stable
\* sort on a pair of booleans, FALSE first
SortedByTags(all_results, k1, k2) ==
    LET key(x) == <<~In(k1, x.title), ~In(k2, x.title)>>
        class(a, b) == SelectSeq(all_results, LAMBDA x : key(x) = <<a, b>>)
    IN  class(FALSE, FALSE) \o class(FALSE, TRUE) \o class(TRUE, FALSE) \o class(TRUE, TRUE)

\* main.py:167-172
Rank(all_results, search_type, mosaic_reduce_first) ==
    IF search_type = "cen" /\ mosaic_reduce_first
    THEN SortedByTags(all_results, "wuma_pojie", "zhongwen_zimu")
    ELSE IF search_type = "cen"
         THEN SortedByTags(all_results, "zhongwen_zimu", "wuma_pojie")
         ELSE all_results

\* FilterResults that tests the first keyword only
FilterResultsFirstKeyword(results, error_keywords) ==
    IF error_keywords = <<>> THEN results
    ELSE SelectSeq(results, LAMBDA res : ~In(error_keywords[1], res.title))

(***************************************************************************)
(* filter_results, main.py:75-78.                                          *)
(***************************************************************************)
FilterResults(results, error_keywords) ==
    IF error_keywords = <<>> THEN results
    ELSE SelectSeq(results,
                   LAMBDA res : ~\E k \in DOMAIN error_keywords : In(error_keywords[k], res.title))

(***************************************************************************)
(* The cover step's pure parts.                                            *)
(***************************************************************************)
\* A cover rule of the configuration: the string "domain|regex", a string
\* without "|", or the dict {"domain", "regex"} (main.py:314-321).
StrRule(parts) == [fmt |-> "str", parts |-> parts, domain |-> None, regex |-> None]

DictRule(domain, regex) == [fmt |-> "dict", parts |-> <<>>, domain |-> domain, regex |-> regex]

\* The regular expressions of the rules: "RE_IMG" captures the page's image
\* reference in group 1, "RE_NOGROUP" finds it and has no group, "RE_MISS"
\* matches no page and "RE_INVALID" does not compile.
RuleDomain(rule) ==
    IF rule.fmt = "str"
    THEN (IF Len(rule.parts) = 2 THEN rule.parts[1] ELSE None)
    ELSE rule.domain

RuleRegex(rule) ==
    IF rule.fmt = "str"
    THEN (IF Len(rule.parts) = 2 THEN rule.parts[2] ELSE None)
    ELSE rule.regex

\* A detail page is the image reference it shows: an absolute URL, a
\* host-relative one (first segment "") or none (<<>>).
DetailPages ==
    { <<>>,
      <<"https:", "", "img.example", "c.jpg">>,
      <<"", "img", "c.jpg">> }

\* The loop of main.py:309-329 from rule n on: raised (re.error at 324,
\* IndexError at 326), or the cover URL, <<>> for None.
RECURSIVE CoverUrlFrom(_, _, _, _)
CoverUrlFrom(current_domain, html, regex_rules, n) ==
    IF n > Len(regex_rules) THEN [raised |-> FALSE, url |-> <<>>]
    ELSE LET domain == RuleDomain(regex_rules[n])
             regex == RuleRegex(regex_rules[n])
         IN  IF domain = current_domain /\ regex # None
             THEN IF regex = "RE_INVALID" THEN [raised |-> TRUE, url |-> <<>>]
                  ELSE IF regex = "RE_MISS" \/ html = <<>>
                       THEN CoverUrlFrom(current_domain, html, regex_rules, n + 1)
                       ELSE IF regex = "RE_NOGROUP" THEN [raised |-> TRUE, url |-> <<>>]
                            ELSE [raised |-> FALSE,
                                  url |-> IF html[1] \in {"http:", "https:"} THEN html
                                          ELSE <<"https:", "", current_domain>> \o Tail(html)]
             ELSE CoverUrlFrom(current_domain, html, regex_rules, n + 1)

\* _get_cover_url_from_html, main.py:304-330
GetCoverUrlFromHtml(url, html, regex_rules) ==
    IF SplitRaises(url) THEN [raised |-> TRUE, url |-> <<>>]
    ELSE CoverUrlFrom(Domain(url), html, regex_rules, 1)

\* EncodeCover that does not decode: the bytes are encoded as they came
EncodeCoverUndecoded(image_data, mosaic_level) ==
    IF image_data = "corrupt" THEN "base64_corrupt"
    ELSE IF mosaic_level > 0 THEN "base64_blurred_jpeg" ELSE "base64_original"

\* The body of _get_cover_image on a 200 response, main.py:339-354: the
\* base64 text, or None where Image.open raises and main.py:355 catches it.
EncodeCover(image_data, mosaic_level) ==
    IF mosaic_level > 0
    THEN (IF image_data = "corrupt" THEN None ELSE "base64_blurred_jpeg")
    ELSE (IF image_data = "corrupt" THEN "base64_corrupt" ELSE "base64_original")

(***************************************************************************)
(* Messages.                                                               *)
(***************************************************************************)
Msg(kind, id, body, image) == [kind |-> kind, id |-> id, body |-> body, image |-> image]

\* main.py:50
MsgEmptyKeyword == Msg("plain", "enter_a_code", <<>>, None)

\* main.py:55
MsgNoCode(kw) == Msg("plain", "no_code_found", <<kw>>, None)

\* main.py:59
MsgSearching(c, mode) == Msg("plain", "searching", <<c, <<mode>> >>, None)

\* main.py:86-90: the Google URL is the prefix, the code and the suffix
MsgFallback(c) ==
    Msg("chain", "fallback", <<<<"https://www.google.com/search?q=">>, c, <<"%20jav">> >>, None)

\* main.py:114-126
FinalMessage(c, title, page_url, cover_image, return_details) ==
    IF cover_image = None /\ ~return_details
    THEN Msg("plain", "nothing_or_disabled", <<c>>, None)
    ELSE Msg("chain", "final",
             IF return_details THEN <<title, page_url>> ELSE <<>>,
             cover_image)

(***************************************************************************)
(* The state.                                                              *)
(***************************************************************************)
VARIABLES
    http_client,    \* self.http_client: None, "open" or "closed"
    init_task,      \* the task of main.py:27: "scheduled" or "done"
    terminated,     \* a call of terminate has returned
    blocked,        \* the event loop's thread waits at main.py:297
    config,         \* the configuration keys read so far, each <<value>>
    pc,             \* where the invocation is
    keyword,        \* search_handler's keyword
    code,           \* search_handler's code
    tasks,          \* per category, the _crawl tasks of _search_worker's gather
    worker,         \* per category, the _search_worker call and its value
    cen_results,    \* search_handler's lists after filter_results
    unc_results,
    all_results,    \* main.py:84
    cover,          \* what the detail page and the image request were answered
    cover_image,    \* main.py:98, 109
    fetches,        \* the three fetcher tasks of actress_search_handler's gather
    final_info,     \* main.py:380
    msgs,           \* the messages the invocation has yielded
    net             \* the requests sent: search, detail page, image, biography

vars == <<http_client, init_task, terminated, blocked, config, pc, keyword, code, tasks, worker,
          cen_results, unc_results, all_results, cover, cover_image, fetches,
          final_info, msgs, net>>

Cats == {"cen", "unc"}

Unread == <<>>

ConfigKeys ==
    {"search_mode", "censored_engines", "uncensored_engines", "mosaic_reduce_first",
     "error_keywords", "cover_regexes", "cover_mosaic_level", "return_details"}

\* the values the configuration takes
SearchModes == {"all", "cen_only", "unc_only"}

ErrorKeywordLists == { <<>>, <<"guanggao">>, <<"guanggao", "J2">> }

CoverRuleLists ==
    { <<>>,
      << StrRule(<<"7mmtv.sx", "RE_IMG">>) >>,
      << StrRule(<<"7mmtv.sx", "RE_MISS">>), DictRule("supjav.com", "RE_IMG"),
         DictRule("7mmtv.sx", "RE_IMG") >>,
      << StrRule(<<"7mmtv.sx RE_IMG">>), DictRule("supjav.com", "RE_NOGROUP") >>,
      << DictRule("7mmtv.sx", "RE_INVALID"), StrRule(<<"jable.tv", "RE_IMG">>) >> }

MosaicLevels == {0, 3}      \* cover_mosaic_level in tenths: 0 and the default 0.3

\* self.config.get(key) returning v: a key keeps the value of its first read
Reads(key, v) == config[key] = Unread \/ config[key] = <<v>>

\* a _search_worker call: all_results of main.py:165, and the value returned
NoWorker == [st |-> "off", all_results |-> <<>>, results |-> <<>>]

NoCover == [detail |-> "none", html |-> <<>>, image |-> "none", data |-> "none"]

NoNet == [search |-> 0, detail |-> 0, image |-> 0, bio |-> 0]

\* final_info as main.py:380 builds it
NoInfo == [year |-> None, height |-> None, measurements |-> None]

Init ==
    /\ http_client = None
    /\ init_task = "scheduled"
    /\ terminated = FALSE
    /\ blocked = FALSE
    /\ config = [k \in ConfigKeys |-> Unread]
    /\ pc = "idle"
    /\ keyword = <<>>
    /\ code = NoCode
    /\ tasks = [c \in Cats |-> <<>>]
    /\ worker = [c \in Cats |-> NoWorker]
    /\ cen_results = <<>>
    /\ unc_results = <<>>
    /\ all_results = <<>>
    /\ cover = NoCover
    /\ cover_image = None
    /\ fetches = <<>>
    /\ final_info = NoInfo
    /\ msgs = <<>>
    /\ net = NoNet

(***************************************************************************)
(* The life cycle of the HTTP client, main.py:22-42.                       *)
(***************************************************************************)
\* initialize, main.py:29-36, run by the task of main.py:27
Initialize ==
    /\ ~blocked
    /\ init_task = "scheduled"
    /\ init_task' = "done"
    /\ http_client' = "open"
    /\ UNCHANGED <<terminated, blocked, config, pc, keyword, code, tasks, worker, cen_results,
                   unc_results, all_results, cover, cover_image, fetches, final_info, msgs, net>>

\* terminate, main.py:38-42
Terminate ==
    /\ ~blocked
    /\ http_client' = IF http_client = "open" THEN "closed" ELSE http_client
    /\ terminated' = TRUE
    /\ UNCHANGED <<init_task, blocked, config, pc, keyword, code, tasks, worker, cen_results,
                   unc_results, all_results, cover, cover_image, fetches, final_info, msgs, net>>

(***************************************************************************)
(* search_handler, main.py:45-126, and the crawl, main.py:152-211.         *)
(***************************************************************************)
\* the user texts of the model
Keywords ==
    { <<>>,
      <<"x", "x", " ", "1", "2">>,
      <<"a", "b", "c", "EMDASH", "1", "2", "3">> }

\* _crawl up to its request, main.py:179-203: the task it leaves
StartCrawl(url_str, client) ==
    LET task(st, outcome) == [url_str |-> url_str, st |-> st, outcome |-> outcome, results |-> <<>>]
    IN  IF client = None THEN task("done", "no_client")                     \* 179-180
        ELSE IF SplitRaises(url_str[1]) THEN task("raised", "IndexError")   \* 194
        ELSE IF client = "closed" THEN task("done", "session_closed")       \* 199/203, 209
        ELSE task("inflight", "none")

\* _search_worker up to its gather, main.py:156-163
StartWorker(engine_urls, client) ==
    [i \in DOMAIN engine_urls |-> StartCrawl(engine_urls[i], client)]

Inflight(ts) == Cardinality({i \in DOMAIN ts : ts[i].st = "inflight"})

\* the categories search_handler crawls in a mode, main.py:63-70
Requested(mode) ==
    CASE mode = "all" -> {"cen", "unc"}
      [] mode = "cen_only" -> {"cen"}
      [] mode = "unc_only" -> {"unc"}
      [] OTHER -> {}

\* NotFound without the test of main.py:54
NotFoundNever(c) == FALSE

\* "if not code", main.py:54
NotFound(c) == c = NoCode

\* search_handler from its call to the await of main.py:66/68/70; the
\* workers and their _crawl tasks run up to their requests in the same step
StartSearch(kw) ==
    /\ ~blocked
    /\ pc = "idle"
    /\ keyword' = kw
    /\ IF kw = <<>>
       THEN /\ msgs' = Append(msgs, MsgEmptyKeyword)
            /\ pc' = "done"
            /\ UNCHANGED <<code, config, tasks, worker, net>>
       ELSE /\ code' = Separate(kw)
            /\ IF NotFound(code')
               THEN /\ msgs' = Append(msgs, MsgNoCode(kw))
                    /\ pc' = "done"
                    /\ UNCHANGED <<config, tasks, worker, net>>
               ELSE \E mode \in SearchModes, cen \in EngineLists(CenEngines),
                       unc \in EngineLists(UncEngines) :
                       /\ Reads("search_mode", mode)
                       /\ "cen" \in Requested(mode) => Reads("censored_engines", cen)
                       /\ "unc" \in Requested(mode) => Reads("uncensored_engines", unc)
                       /\ "cen" \notin Requested(mode) => cen = <<>>
                       /\ "unc" \notin Requested(mode) => unc = <<>>
                       /\ config' = [config EXCEPT
                               !["search_mode"] = <<mode>>,
                               !["censored_engines"] =
                                   IF "cen" \in Requested(mode) THEN <<cen>> ELSE @,
                               !["uncensored_engines"] =
                                   IF "unc" \in Requested(mode) THEN <<unc>> ELSE @]
                       /\ msgs' = Append(msgs, MsgSearching(code', mode))
                       /\ tasks' = [c \in Cats |->
                               IF c \notin Requested(mode) THEN <<>>
                               ELSE StartWorker(IF c = "cen" THEN cen ELSE unc, http_client)]
                       /\ worker' = [c \in Cats |->
                               IF c \in Requested(mode)
                               THEN [NoWorker EXCEPT !.st = "running"] ELSE NoWorker]
                       /\ net' = [net EXCEPT !.search =
                                      Inflight(tasks'["cen"]) + Inflight(tasks'["unc"])]
                       /\ pc' = "crawl"
    /\ UNCHANGED <<http_client, init_task, terminated, blocked, cen_results, unc_results, all_results,
                   cover, cover_image, fetches, final_info>>

\* how a request ends without a response: all are raised inside the try
Failures == {"network_error", "timeout", "decode_error"}

\* OnFailure without the except of main.py:209: the exception leaves _crawl
OnFailureRaises(t, f) == [t EXCEPT !.st = "raised", !.outcome = f]

\* the except of main.py:209-211: the task ends with the value []
OnFailure(t, f) == [t EXCEPT !.st = "done", !.outcome = f, !.results = <<>>]

\* _crawl from its response on, main.py:200-211, for the task i of category c
CrawlRespond(c, i) ==
    /\ ~blocked
    /\ i \in DOMAIN tasks[c]
    /\ tasks[c][i].st = "inflight"
    /\ LET t == tasks[c][i]
           url == t.url_str[1]
       IN  \/ \E f \in Failures :
                 /\ tasks' = [tasks EXCEPT ![c][i] = OnFailure(t, f)]
                 /\ UNCHANGED blocked
           \/ \E status \in {200, 404} :
                 \E html \in (IF status = 200 THEN OkPages(url) ELSE {ErrorPage(url)}) :
                    LET parsed == ParseHtml(url, html, code, c, http_client)
                    IN  IF parsed.blocked
                        THEN /\ blocked' = TRUE
                             /\ tasks' = [tasks EXCEPT ![c][i] = [t EXCEPT !.st = "blocked"]]
                        ELSE /\ tasks' = [tasks EXCEPT ![c][i] =
                                     [t EXCEPT !.st = "done",
                                               !.outcome = IF status = 200 THEN "http_200"
                                                           ELSE "http_404",
                                               !.results = parsed.results]]
                             /\ UNCHANGED blocked
    /\ UNCHANGED <<http_client, init_task, terminated, config, pc, keyword, code, worker, cen_results,
                   unc_results, all_results, cover, cover_image, fetches, final_info, msgs, net>>

\* ResultsNested with the values of the tasks in the reverse order
ResultsNestedReversed(ts) == [i \in DOMAIN ts |-> ts[Len(ts) + 1 - i].results]

\* results_nested of main.py:163: the tasks' values in the order of the list
ResultsNested(ts) == [i \in DOMAIN ts |-> ts[i].results]

\* _search_worker from the end of its gather on, main.py:163-172: gather
\* raises as soon as one task has raised, and returns when all are done
WorkerReturn(c) ==
    /\ ~blocked
    /\ worker[c].st = "running"
    /\ IF \E i \in DOMAIN tasks[c] : tasks[c][i].st = "raised"
       THEN /\ worker' = [worker EXCEPT ![c].st = "raised"]
            /\ UNCHANGED config
       ELSE /\ \A i \in DOMAIN tasks[c] : tasks[c][i].st = "done"
            /\ \E mosaic \in (IF c = "cen" THEN BOOLEAN ELSE {FALSE}) :
                  /\ c = "cen" => Reads("mosaic_reduce_first", mosaic)
                  /\ config' = [config EXCEPT !["mosaic_reduce_first"] =
                                    IF c = "cen" THEN <<mosaic>> ELSE @]
                  /\ worker' = [worker EXCEPT ![c] =
                         [st |-> "returned",
                          all_results |-> Flatten(ResultsNested(tasks[c])),
                          results |-> Rank(Flatten(ResultsNested(tasks[c])), c, mosaic)]]
    /\ UNCHANGED <<http_client, init_task, terminated, blocked, pc, keyword, code, tasks, cen_results,
                   unc_results, all_results, cover, cover_image, fetches, final_info, msgs, net>>

\* the try of main.py:100-111 up to its first request: what the GET of the
\* detail page does at once
DetailRequest(page_url, client) ==
    IF page_url = <<>> \/ client = None THEN "skipped"        \* main.py:99
    ELSE IF ~IsAbsolute(page_url) \/ client = "closed" THEN "raised"
    ELSE "sent"

\* AfterMerge without the test of main.py:85
AfterMergeNoFallback(all, client) ==
    IF all = <<>> THEN "sent" ELSE DetailRequest(all[1].url, client)

\* main.py:85-104: the fallback for an empty list, else the request of the
\* representative result's page
AfterMerge(all, client) ==
    IF all = <<>> THEN "fallback" ELSE DetailRequest(all[1].url, client)

\* search_handler from the end of its await to the request of the detail
\* page, main.py:66-104.  An exception of a worker leaves the handler.
Aggregate ==
    /\ ~blocked
    /\ pc = "crawl"
    /\ LET asked == {c \in Cats : worker[c].st # "off"}
       IN  IF \E c \in asked : worker[c].st = "raised"
           THEN /\ pc' = "raised"
                /\ UNCHANGED <<config, tasks, cen_results, unc_results, all_results, msgs, net>>
           ELSE /\ \A c \in asked : worker[c].st = "returned"
                /\ \E error_keywords \in ErrorKeywordLists, return_details \in BOOLEAN :
                      LET cen == FilterResults(worker["cen"].results, error_keywords)
                          unc == FilterResults(worker["unc"].results, error_keywords)
                          all == cen \o unc
                          req == AfterMerge(all, http_client)
                          ends == req \notin {"fallback", "sent"}
                      IN  /\ Reads("error_keywords", error_keywords)
                          /\ ends => Reads("return_details", return_details)
                          /\ ~ends => return_details
                          /\ config' = [config EXCEPT
                                  !["error_keywords"] = <<error_keywords>>,
                                  !["return_details"] = IF ends THEN <<return_details>> ELSE @]
                          /\ cen_results' = cen
                          /\ unc_results' = unc
                          /\ all_results' = all
                          /\ tasks' = [k \in Cats |-> <<>>]
                          /\ IF req = "fallback"
                             THEN /\ msgs' = Append(msgs, MsgFallback(code))
                                  /\ pc' = "done"
                                  /\ UNCHANGED net
                             ELSE IF req = "sent"
                                  THEN /\ net' = [net EXCEPT !.detail = @ + 1]
                                       /\ pc' = "detail"
                                       /\ UNCHANGED msgs
                                  ELSE /\ msgs' = Append(msgs,
                                              FinalMessage(code, all[1].title, all[1].url,
                                                           None, return_details))
                                       /\ pc' = "done"
                                       /\ UNCHANGED net
    /\ UNCHANGED <<http_client, init_task, terminated, blocked, keyword, code, worker, cover, cover_image,
                   fetches, final_info>>

\* how a request of the cover step was answered
Answer(outcome) == IF outcome \in Failures THEN "failed" ELSE outcome

\* _get_cover_image up to its request, main.py:334-337
ImageRequest(cover_url, client) ==
    IF client = None THEN "skipped"
    ELSE IF ~IsAbsolute(cover_url) \/ client = "closed" THEN "raised"
    ELSE "sent"

\* search_handler from the response of the detail page to the request of the
\* image, main.py:104-109, or to its last message, main.py:110-126
DetailRespond ==
    /\ ~blocked
    /\ pc = "detail"
    /\ \E outcome \in Failures \cup {"http_404", "http_200"},
          html \in DetailPages, regex_rules \in CoverRuleLists, return_details \in BOOLEAN :
          LET main_result == all_results[1]
              found == IF outcome = "http_200"
                       THEN GetCoverUrlFromHtml(main_result.url, html, regex_rules)
                       ELSE [raised |-> FALSE, url |-> <<>>]
              req == IF outcome = "http_200" /\ ~found.raised /\ found.url # <<>>
                     THEN ImageRequest(found.url, http_client)
                     ELSE "none"
          IN  /\ outcome # "http_200" => html = <<>> /\ regex_rules = <<>>
              /\ outcome = "http_200" => Reads("cover_regexes", regex_rules)
              /\ req # "sent" => Reads("return_details", return_details)
              /\ req = "sent" => return_details
              /\ config' = [config EXCEPT
                      !["cover_regexes"] = IF outcome = "http_200" THEN <<regex_rules>> ELSE @,
                      !["return_details"] = IF req # "sent" THEN <<return_details>> ELSE @]
              /\ cover' = [cover EXCEPT !.detail = Answer(outcome), !.html = html]
              /\ IF req = "sent"
                 THEN /\ net' = [net EXCEPT !.image = @ + 1]
                      /\ pc' = "image"
                      /\ UNCHANGED msgs
                 ELSE /\ msgs' = Append(msgs,
                             FinalMessage(code, main_result.title, main_result.url,
                                          None, return_details))
                      /\ pc' = "done"
                      /\ UNCHANGED net
    /\ UNCHANGED <<http_client, init_task, terminated, blocked, keyword, code, tasks, worker, cen_results,
                   unc_results, all_results, cover_image, fetches, final_info>>

\* the images a cover URL serves
ImageData == {"jpeg", "corrupt"}

\* search_handler from the response of the image to its last message,
\* main.py:337-357 and 109-126
ImageRespond ==
    /\ ~blocked
    /\ pc = "image"
    /\ \E outcome \in Failures \cup {"http_404", "http_200"},
          image_data \in ImageData, mosaic_level \in MosaicLevels, return_details \in BOOLEAN :
          LET main_result == all_results[1]
              image == IF outcome = "http_200" THEN EncodeCover(image_data, mosaic_level)
                       ELSE None
          IN  /\ outcome # "http_200" => image_data = "jpeg" /\ mosaic_level = 0
              /\ outcome = "http_200" => Reads("cover_mosaic_level", mosaic_level)
              /\ Reads("return_details", return_details)
              /\ config' = [config EXCEPT
                      !["cover_mosaic_level"] = IF outcome = "http_200" THEN <<mosaic_level>> ELSE @,
                      !["return_details"] = <<return_details>>]
              /\ cover' = [cover EXCEPT !.image = Answer(outcome),
                                         !.data = IF outcome = "http_200" THEN image_data ELSE "none"]
              /\ cover_image' = image
              /\ msgs' = Append(msgs,
                      FinalMessage(code, main_result.title, main_result.url,
                                   image, return_details))
              /\ pc' = "done"
    /\ UNCHANGED <<http_client, init_task, terminated, blocked, keyword, code, tasks, worker, cen_results,
                   unc_results, all_results, fetches, final_info, net>>

(***************************************************************************)
(* actress_search_handler, main.py:359-403, and its fetchers, 420-542.     *)
(* A biography page is what the fetcher's patterns find in it: the year,   *)
(* the height and the measurements, each None when its pattern finds       *)
(* nothing; box says whether the block that holds them is there at all.    *)
(***************************************************************************)
BioPage(box, year, height, meas) ==
    [box |-> box, year |-> year, height |-> height, meas |-> meas]

Info(year, height, meas) == [year |-> year, height |-> height, measurements |-> meas]

\* what a Python "if v" takes as true of a string or None
Truthy(v) == v # None /\ v # ""

\* int(text) of the numerals of the pages
IntOf(text) ==
    CASE text = "1975" -> 1975 [] text = "1990" -> 1990 [] text = "1991" -> 1991
      [] text = "1992" -> 1992 [] text = "160" -> 160 [] text = "165" -> 165
      [] text = "170" -> 170 [] OTHER -> 0

Pages(i) ==
    CASE i = 1 -> {BioPage(FALSE, None, None, None)} \cup
                  {BioPage(TRUE, y, h, m) : y \in {None, "1990"}, h \in {None, "160"},
                                            m \in {None, "B80-W60-H85", "B?-W?-H?"}}
      [] i = 2 -> {BioPage(TRUE, y, h, m) : y \in {None, "1975", "1991"}, h \in {None, "170"},
                                            m \in {None, "B81-W61-H86"}}
      [] OTHER -> {BioPage(FALSE, None, None, None)} \cup
                  {BioPage(TRUE, y, h, m) : y \in {None, "1992"}, h \in {None, "165"},
                                            m \in {None, "B82-W62-H87"}}

\* A fetcher's value is <<>> for None and <<info>> for a dict.
\* _fetch_av2ch_info on a 200 response, main.py:435-464
Av2chExtract(page) ==
    IF ~page.box THEN <<>>
    ELSE << Info(page.year, page.height,
                 IF page.meas = "B?-W?-H?" THEN None ELSE page.meas) >>

\* _fetch_wikipedia_info on a 200 response, main.py:480-495
WikipediaExtract(page) ==
    IF page.year # None /\ IntOf(page.year) < 1980 THEN <<>>
    ELSE << Info(page.year, page.height, page.meas) >>

\* _fetch_avwiki_info on the response of the detail page, main.py:519-540
AvwikiExtract(page) ==
    IF ~page.box THEN <<>> ELSE << Info(page.year, page.height, page.meas) >>

\* a fetcher up to its first request, main.py:422/471/502 and the try
StartFetch(client) ==
    IF client = "open"
    THEN [st |-> "inflight", stage |-> 1, result |-> <<>>]
    ELSE [st |-> "done", stage |-> 1, result |-> <<>>]

\* MergeOne without the "not final_info.get(...)" tests: the last source wins
MergeOneLastWins(info, res) ==
    IF res = <<>> THEN info
    ELSE LET r == res[1]
         IN  [year |-> IF Truthy(r.year) THEN r.year ELSE info.year,
              height |-> IF Truthy(r.height) THEN r.height ELSE info.height,
              measurements |-> IF Truthy(r.measurements) THEN r.measurements
                               ELSE info.measurements]

\* the loop body of main.py:381-388
MergeOne(info, res) ==
    IF res = <<>> THEN info
    ELSE LET r == res[1]
         IN  [year |-> IF Truthy(r.year) /\ ~Truthy(info.year) THEN r.year ELSE info.year,
              height |-> IF Truthy(r.height) /\ ~Truthy(info.height)
                         THEN r.height ELSE info.height,
              measurements |-> IF Truthy(r.measurements) /\ ~Truthy(info.measurements)
                               THEN r.measurements ELSE info.measurements]

\* the loop of main.py:380-388 over the values of gather, in the order of
\* the list of main.py:372-376
RECURSIVE MergeFrom(_, _, _)
MergeFrom(info, results, n) ==
    IF n > Len(results) THEN info
    ELSE MergeFrom(MergeOne(info, results[n]), results, n + 1)

Merge(results) == MergeFrom(NoInfo, results, 1)

\* height.isdigit() on the heights of the pages
IsDigitText(text) == text \in {"160", "165", "170"}

\* the height from which main.py:415 marks a height
StarHeight == 168

\* _format_actress_info, main.py:405-418: None, or the three lines
FormatActressInfo(year0, height0, measurements0) ==
    LET year == IF Truthy(year0) THEN year0 ELSE "?"
        height == IF Truthy(height0) THEN height0 ELSE "?"
        measurements == IF Truthy(measurements0) THEN measurements0 ELSE "?"
    IN  IF year = "?" /\ height = "?" /\ measurements = "?" THEN <<>>
        ELSE << "[birth]", year,
                "[height]", IF IsDigitText(height) /\ IntOf(height) >= StarHeight
                            THEN "star" ELSE "", height,
                "[bwh]", measurements >>

\* main.py:365
MsgEmptyName == Msg("plain", "enter_a_name", <<>>, None)

\* main.py:368
MsgLooking(name) == Msg("plain", "looking_up", <<name>>, None)

\* main.py:396
MsgActress(name, formatted_str) == Msg("plain", "actress", <<name>> \o formatted_str, None)

\* main.py:399
MsgNoInfo(name) == Msg("plain", "no_information", <<name>>, None)

Names == {"", "name"}

\* actress_search_handler up to its gather, main.py:364-377; the fetchers
\* run up to their requests in the same step
StartActress(name) ==
    /\ ~blocked
    /\ pc = "idle"
    /\ IF name = ""
       THEN /\ msgs' = Append(msgs, MsgEmptyName)
            /\ pc' = "done"
            /\ UNCHANGED <<fetches, net>>
       ELSE /\ msgs' = Append(msgs, MsgLooking(name))
            /\ fetches' = [i \in 1..3 |-> StartFetch(http_client)]
            /\ net' = [net EXCEPT !.bio = IF http_client = "open" THEN 3 ELSE 0]
            /\ pc' = "lookup"
    /\ UNCHANGED <<http_client, init_task, terminated, blocked, config, keyword, code, tasks, worker,
                   cen_results, unc_results, all_results, cover, cover_image, final_info>>

\* the fetcher i from a response on: _fetch_av2ch_info (1), main.py:431-467,
\* _fetch_wikipedia_info (2), 476-498, and _fetch_avwiki_info (3), 508-542,
\* whose first response leads to a second request
FetchRespond(i) ==
    /\ ~blocked
    /\ i \in DOMAIN fetches
    /\ fetches[i].st = "inflight"
    /\ LET f == fetches[i]
           done(v) == fetches' = [fetches EXCEPT ![i] = [f EXCEPT !.st = "done", !.result = v]]
       IN  \/ \E fail \in Failures : done(<<>>) /\ UNCHANGED net
           \/ i \in {1, 2} /\ done(<<>>) /\ UNCHANGED net                  \* status is not 200
           \/ i = 1 /\ \E page \in Pages(1) : done(Av2chExtract(page)) /\ UNCHANGED net
           \/ i = 2 /\ \E page \in Pages(2) : done(WikipediaExtract(page)) /\ UNCHANGED net
           \/ i = 3 /\ f.stage = 1 /\
                \E url_match \in BOOLEAN :
                   IF ~url_match \/ http_client # "open"
                   THEN done(<<>>) /\ UNCHANGED net
                   ELSE /\ fetches' = [fetches EXCEPT ![i] = [f EXCEPT !.stage = 2]]
                        /\ net' = [net EXCEPT !.bio = @ + 1]
           \/ i = 3 /\ f.stage = 2 /\
                \E page \in Pages(3) : done(AvwikiExtract(page)) /\ UNCHANGED net
    /\ UNCHANGED <<http_client, init_task, terminated, blocked, config, pc, keyword, code, tasks, worker,
                   cen_results, unc_results, all_results, cover, cover_image, final_info, msgs>>

\* the values of gather, in the order of the list of main.py:372-376
GatherResults(fs) == [i \in DOMAIN fs |-> fs[i].result]

\* actress_search_handler from the end of its gather on, main.py:377-399
ActressJoin ==
    /\ ~blocked
    /\ pc = "lookup"
    /\ \A i \in DOMAIN fetches : fetches[i].st = "done"
    /\ final_info' = Merge(GatherResults(fetches))
    /\ LET formatted_str == FormatActressInfo(final_info'.year, final_info'.height,
                                              final_info'.measurements)
       IN  msgs' = Append(msgs, IF formatted_str # <<>> THEN MsgActress("name", formatted_str)
                                ELSE MsgNoInfo("name"))
    /\ pc' = "done"
    /\ UNCHANGED <<http_client, init_task, terminated, blocked, config, keyword, code, tasks, worker,
                   cen_results, unc_results, all_results, cover, cover_image, fetches, net>>

Next ==
    \/ Initialize
    \/ Terminate
    \/ \E kw \in Keywords : StartSearch(kw)
    \/ \E c \in Cats, i \in 1..(MaxEngines + 1) : CrawlRespond(c, i)
    \/ \E c \in Cats : WorkerReturn(c)
    \/ Aggregate
    \/ DetailRespond
    \/ ImageRespond
    \/ \E name \in Names : StartActress(name)
    \/ \E i \in 1..3 : FetchRespond(i)
    \/ ActressJoin

Spec == Init /\ [][Next]_vars

(***************************************************************************)
(* The claims.                                                             *)
(***************************************************************************)
\* the position of a value in a list that holds it
IndexOf(list, r) == CHOOSE p \in DOMAIN list : list[p] = r

\* the _crawl task of category c that found the result r
SourceOf(c, r) == CHOOSE i \in DOMAIN tasks[c] : r \in Range(tasks[c][i].results)

\* the tasks of category c whose request ended in a failure
FailedTasks(c) == {i \in DOMAIN tasks[c] : tasks[c][i].outcome \in Failures}

\* an exception of _crawl is the IndexError of a malformed engine string
IndexErrorIn(c) == \E i \in DOMAIN tasks[c] : tasks[c][i].outcome = "IndexError"

\* C1: a source whose request ends in a network error, a timeout or an
\* exception while its body is read ends with the value [] and never with an
\* exception; the category's call and the handler fail only on the IndexError
\* of an engine string; and the list a category returns holds every result of
\* every sibling and nothing else.
C1_SourceFailureIsolated ==
    /\ \A c \in Cats : \A i \in FailedTasks(c) :
          tasks[c][i].st = "done" /\ tasks[c][i].results = <<>>
    /\ \A c \in Cats : worker[c].st = "raised" => IndexErrorIn(c)
    /\ pc = "raised" => \E c \in Cats : IndexErrorIn(c)
    /\ \A c \in Cats :
          (worker[c].st = "returned" /\ tasks[c] # <<>>) =>
             /\ \A i \in DOMAIN tasks[c] : \A k \in DOMAIN tasks[c][i].results :
                   tasks[c][i].results[k] \in Range(worker[c].results)
             /\ \A p \in DOMAIN worker[c].results :
                   \E i \in DOMAIN tasks[c] \ FailedTasks(c) :
                      worker[c].results[p] \in Range(tasks[c][i].results)

\* a category has returned its list with one source failed and the results of
\* a sibling in the list
C1_Witness ==
    \E c \in Cats :
       /\ worker[c].st = "returned"
       /\ FailedTasks(c) # {}
       /\ \E j \in DOMAIN tasks[c] \ FailedTasks(c) :
             /\ tasks[c][j].results # <<>>
             /\ tasks[c][j].results[1] \in Range(worker[c].results)

\* C2: no exception leaves search_handler, and an invocation that has ended
\* has yielded a message.
C2_NoExceptionEscapes ==
    /\ pc # "raised"
    /\ pc = "done" => msgs # <<>>

\* the two results are in the same class of the ranking's key
SameRank(x, y) ==
    /\ In("wuma_pojie", x.title) = In("wuma_pojie", y.title)
    /\ In("zhongwen_zimu", x.title) = In("zhongwen_zimu", y.title)

\* the results of out keep the order they have in inp
KeepsOrder(out, inp) ==
    \A p, q \in DOMAIN out :
       p < q => IndexOf(inp, out[p]) < IndexOf(inp, out[q])

EnginesKey(c) == IF c = "cen" THEN "censored_engines" ELSE "uncensored_engines"

\* C3: whatever the order in which the requests were answered, the tasks of
\* a category are the configured engines in their order; the list of a
\* category before ranking has the sources in that order and each source's
\* results in extraction order; ranking keeps that order inside a class of
\* its key and the uncensored list is not ranked; and the merged list is the
\* censored list, then the uncensored, each in the order its category gave.
C3_OrderIsConfigurationOrder ==
    /\ \A c \in Cats :
          tasks[c] # <<>> =>
             /\ Len(tasks[c]) = Len(config[EnginesKey(c)][1])
             /\ \A i \in DOMAIN tasks[c] : tasks[c][i].url_str = config[EnginesKey(c)][1][i]
    /\ \A c \in Cats :
          (worker[c].st = "returned" /\ tasks[c] # <<>>) =>
             LET l == worker[c].all_results
             IN  /\ \A p, q \in DOMAIN l :
                       p < q =>
                          LET i == SourceOf(c, l[p])
                              j == SourceOf(c, l[q])
                          IN  \/ i < j
                              \/ /\ i = j
                                 /\ IndexOf(tasks[c][i].results, l[p])
                                       < IndexOf(tasks[c][i].results, l[q])
                 /\ Len(worker[c].results) = Len(l)
                 /\ \A p, q \in DOMAIN worker[c].results :
                       (p < q /\ SameRank(worker[c].results[p], worker[c].results[q]))
                          => IndexOf(l, worker[c].results[p]) < IndexOf(l, worker[c].results[q])
                 /\ c = "unc" => worker[c].results = l
    /\ config["error_keywords"] # Unread =>
          /\ all_results = cen_results \o unc_results
          /\ KeepsOrder(cen_results, worker["cen"].results)
          /\ KeepsOrder(unc_results, worker["unc"].results)

\* the censored crawl has returned a list with the results of two sources
\* while a request of the uncensored crawl is still unanswered
C3_Witness ==
    /\ worker["cen"].st = "returned"
    /\ Len(tasks["cen"]) = 2
    /\ tasks["cen"][1].results # <<>>
    /\ tasks["cen"][2].results # <<>>
    /\ worker["unc"].st = "running"
    /\ \E i \in DOMAIN tasks["unc"] : tasks["unc"][i].st = "inflight"

\* the user texts in which _separate finds no identifier
NoCodeKeywords == {kw \in Keywords : Separate(kw) = NoCode}

\* C4: an invocation whose text holds no identifier has ended with the one
\* message that no code was found, and has sent no request and started no
\* crawl.
C4_NoCodeNoNetwork ==
    (pc # "idle" /\ keyword # <<>> /\ keyword \in NoCodeKeywords) =>
       /\ pc = "done"
       /\ Len(msgs) = 1
       /\ msgs[1].id = "no_code_found"
       /\ msgs[1].body = <<keyword>>
       /\ net = NoNet
       /\ \A c \in Cats : tasks[c] = <<>> /\ worker[c].st = "off"

\* with the HTTP client open, a text without an identifier was answered
C4_Witness ==
    /\ http_client = "open"
    /\ pc = "done"
    /\ keyword # <<>>
    /\ code = NoCode
    /\ Len(msgs) = 1
    /\ msgs[1].id = "no_code_found"

\* the tag the configuration ranks first, and the other one
FirstTag == IF config["mosaic_reduce_first"] = <<TRUE>> THEN "[pojie]" ELSE "[zhongzi]"

SecondTag == IF config["mosaic_reduce_first"] = <<TRUE>> THEN "[zhongzi]" ELSE "[pojie]"

\* C5: in the ranked censored list a result with the first-priority tag is
\* before every result without it, and of two results equal on that tag the
\* one with the second-priority tag is before the one without it.
C5_TaggedResultsFirst ==
    worker["cen"].st = "returned" =>
       LET l == worker["cen"].results
       IN  \A p, q \in DOMAIN l :
              p < q =>
                 /\ ~(~In(FirstTag, l[p].title) /\ In(FirstTag, l[q].title))
                 /\ In(FirstTag, l[p].title) = In(FirstTag, l[q].title)
                       => ~(~In(SecondTag, l[p].title) /\ In(SecondTag, l[q].title))

\* C6: no result of a body that came with a status other than 200 is in the
\* merged list (the only bodies with a title "E404" are those of ErrorPage).
C6_Non200ContributesNothing ==
    \A p \in DOMAIN all_results : ~In("E404", all_results[p].title)

\* a blocked substring is in the title of the result
Blocked(r, kws) == \E k \in DOMAIN kws : In(kws[k], r.title)

\* out is the results of inp with no blocked title, in the order of inp
IsFiltered(out, inp, kws) ==
    /\ \A p \in DOMAIN out : ~Blocked(out[p], kws) /\ out[p] \in Range(inp)
    /\ \A q \in DOMAIN inp : ~Blocked(inp[q], kws) => inp[q] \in Range(out)
    /\ Len(out) <= Len(inp)
    /\ KeepsOrder(out, inp)

\* C7: once the handler has filtered, each category's list is the results of
\* its crawl whose title holds no blocked substring, in their order; the
\* merged list is the two filtered lists, so no blocked title is in it or is
\* the representative; and filtering a filtered list again changes nothing.
C7_FilterKeepsExactlyUnblocked ==
    config["error_keywords"] # Unread =>
       LET kws == config["error_keywords"][1]
       IN  /\ IsFiltered(cen_results, worker["cen"].results, kws)
           /\ IsFiltered(unc_results, worker["unc"].results, kws)
           /\ all_results = cen_results \o unc_results
           /\ \A p \in DOMAIN all_results : ~Blocked(all_results[p], kws)
           /\ FilterResults(cen_results, kws) = cen_results
           /\ FilterResults(unc_results, kws) = unc_results
           /\ FilterResults(all_results, kws) = all_results

\* the filter has dropped a result of the censored crawl and kept another
C7_Witness ==
    /\ config["error_keywords"] # Unread
    /\ cen_results # <<>>
    /\ Len(cen_results) < Len(worker["cen"].results)
    /\ pc = "done"

\* C8: when both filtered lists are empty the merged list is empty, and the
\* invocation has ended with the status message and one fallback message
\* that holds the code, without raising and without a request for a detail
\* page or an image; and a fallback message is yielded in no other case.
C8_EmptyAggregateFallsBack ==
    /\ (config["error_keywords"] # Unread /\ cen_results = <<>> /\ unc_results = <<>>) =>
          /\ all_results = <<>>
          /\ pc = "done"
          /\ Len(msgs) = 2
          /\ msgs[1].id = "searching"
          /\ msgs[2].kind = "chain"
          /\ msgs[2].id = "fallback"
          /\ msgs[2].body[2] = code
          /\ net.detail = 0
          /\ net.image = 0
    /\ \A i \in DOMAIN msgs :
          msgs[i].id = "fallback" =>
             /\ config["error_keywords"] # Unread
             /\ cen_results = <<>>
             /\ unc_results = <<>>

\* every result of the crawl was blocked, and the fallback was yielded
C8_Witness ==
    /\ \E c \in Cats : worker[c].results # <<>>
    /\ all_results = <<>>
    /\ pc = "done"
    /\ Len(msgs) = 2
    /\ msgs[2].id = "fallback"

\* the invocation has ended with a representative result
Finished == pc = "done" /\ all_results # <<>>

\* the cover step failed: the detail page or the image did not come with
\* status 200, no image was requested (no cover URL was found, or the rule
\* or the request raised), or the image could not be decoded for the blur
CoverFailure ==
    \/ cover.detail # "http_200"
    \/ net.image = 0
    \/ cover.image # "http_200"
    \/ cover.data = "corrupt" /\ config["cover_mosaic_level"] # <<0>>

LastMsg == msgs[Len(msgs)]

\* the message that holds the representative's title and page URL, no image
TextOnly(m) ==
    /\ m.kind = "chain"
    /\ m.id = "final"
    /\ m.image = None
    /\ m.body = <<all_results[1].title, all_results[1].url>>

\* C9 as the claim states it: after any failure of the cover step the last
\* message holds the representative's title and page URL and no image.
C9_CoverFailureKeepsTitleAndUrl ==
    (Finished /\ CoverFailure) => TextOnly(LastMsg)

\* C9, amended: a failure of the cover step never leaves the handler as an
\* exception, and the invocation ends with the status message and one more
\* message without an image: the representative's title and page URL when
\* return_details is true, the plain notice that nothing was found or is
\* configured to be returned when it is false.
C9_CoverFailureTextOnly ==
    /\ pc = "raised" => net.detail = 0 /\ net.image = 0
    /\ (Finished /\ CoverFailure) =>
          /\ cover_image = None
          /\ Len(msgs) = 2
          /\ LastMsg.image = None
          /\ IF config["return_details"] = <<TRUE>>
             THEN TextOnly(LastMsg)
             ELSE /\ LastMsg.kind = "plain"
                  /\ LastMsg.id = "nothing_or_disabled"

\* the image came and could not be decoded, with return_details false
C9_Witness ==
    /\ Finished
    /\ cover.image = "http_200"
    /\ cover.data = "corrupt"
    /\ config["cover_mosaic_level"] = <<3>>
    /\ config["return_details"] = <<FALSE>>
    /\ LastMsg.id = "nothing_or_disabled"

\* the fields of final_info
Fields == {"year", "height", "measurements"}

\* the sources, in the order of the list of main.py:372-376, whose value is
\* a dict with a value that is not None for the field
Having(f) == {i \in DOMAIN fetches : fetches[i].result # <<>> /\ fetches[i].result[1][f] # None}

\* the actress lookup has merged
Joined == pc = "done" /\ fetches # <<>>

\* C10: each field of the merged record is the value of the first source, in
\* the order av2ch, Wikipedia, av-wiki, that returned a value for it, and
\* None if none did.
C10_FirstNonNullWins ==
    Joined =>
       \A f \in Fields :
          IF Having(f) = {} THEN final_info[f] = None
          ELSE LET i == CHOOSE j \in Having(f) : \A k \in Having(f) : j <= k
               IN  final_info[f] = fetches[i].result[1][f]

\* the example of the claim: av2ch has the year only, Wikipedia the height
\* only, av-wiki returned None
C10_Witness ==
    /\ Joined
    /\ fetches[1].result = <<Info("1990", None, None)>>
    /\ fetches[2].result = <<Info(None, "170", None)>>
    /\ fetches[3].result = <<>>
    /\ final_info = Info("1990", "170", None)

(***************************************************************************)
(* _format_actress_info as a function of its three parameters, each an     *)
(* Optional[str], main.py:405: the handler's last step, main.py:391-399,   *)
(* on every record of the type, the empty string included.                 *)
(***************************************************************************)
\* the values of a parameter of _format_actress_info
Years == {None, "", "1975", "1990"}

Heights == {None, "", "160", "165", "170"}

Measures == {None, "", "B80-W60-H85"}

\* the records handed to main.py:391-393
InitFormat ==
    /\ http_client = None
    /\ init_task = "scheduled"
    /\ terminated = FALSE
    /\ blocked = FALSE
    /\ config = [k \in ConfigKeys |-> Unread]
    /\ pc = "format"
    /\ keyword = <<>>
    /\ code = NoCode
    /\ tasks = [c \in Cats |-> <<>>]
    /\ worker = [c \in Cats |-> NoWorker]
    /\ cen_results = <<>>
    /\ unc_results = <<>>
    /\ all_results = <<>>
    /\ cover = NoCover
    /\ cover_image = None
    /\ fetches = <<>>
    /\ final_info \in {Info(y, h, m) : y \in Years, h \in Heights, m \in Measures}
    /\ msgs = <<>>
    /\ net = NoNet

\* main.py:391-399 on the record
FormatCall ==
    /\ pc = "format"
    /\ LET formatted_str == FormatActressInfo(final_info.year, final_info.height,
                                              final_info.measurements)
       IN  msgs' = Append(msgs, IF formatted_str # <<>> THEN MsgActress("name", formatted_str)
                                ELSE MsgNoInfo("name"))
    /\ pc' = "done"
    /\ UNCHANGED <<http_client, init_task, terminated, blocked, config, keyword, code, tasks, worker,
                   cen_results, unc_results, all_results, cover, cover_image, fetches,
                   final_info, net>>

NextFormat == FormatCall

SpecFormat == InitFormat /\ [][NextFormat]_vars

\* the three fields of the record are null
AllNull(info) == \A f \in Fields : info[f] = None

\* the outcome reported is "no information found"
NoInformation == msgs # <<>> /\ LastMsg.id = "no_information"

C11_InHandler ==
    Joined =>
       /\ NoInformation <=> AllNull(final_info)
       /\ \A f \in Fields : final_info[f] # ""

(***************************************************************************)
(* _separate as a function of its text, main.py:129-150: the texts are     *)
(* made of pieces that hold a match of each rule, and of characters that   *)
(* join or part them.                                                      *)
(***************************************************************************)
\* the most pieces in a text
MaxPieces == 3

\* "12345-67" and "12345_6789" match rule 1 (and "6789" rule 4), "ab-12"
\* rule 2, "ab123" rule 3, "1234" rule 4
Pieces ==
    { <<"1", "2", "3", "4", "5", "-", "6", "7">>,
      <<"1", "2", "3", "4", "5", "_", "6", "7", "8", "9">>,
      <<"a", "b", "-", "1", "2">>,
      <<"a", "b", "1", "2", "3">>,
      <<"1", "2", "3", "4">>,
      <<" ">>, <<"x">>, <<"9">>, <<"EMDASH">> }

\* the texts of at most n pieces
RECURSIVE TextsOf(_)
TextsOf(n) ==
    IF n = 0 THEN {<<>>}
    ELSE LET shorter == TextsOf(n - 1)
         IN  shorter \cup {p \o t : p \in Pieces, t \in shorter}

\* the text_content of a call of _separate
InitSeparate ==
    /\ http_client = None
    /\ init_task = "scheduled"
    /\ terminated = FALSE
    /\ blocked = FALSE
    /\ config = [k \in ConfigKeys |-> Unread]
    /\ pc = "separate"
    /\ keyword \in TextsOf(MaxPieces)
    /\ code = NoCode
    /\ tasks = [c \in Cats |-> <<>>]
    /\ worker = [c \in Cats |-> NoWorker]
    /\ cen_results = <<>>
    /\ unc_results = <<>>
    /\ all_results = <<>>
    /\ cover = NoCover
    /\ cover_image = None
    /\ fetches = <<>>
    /\ final_info = NoInfo
    /\ msgs = <<>>
    /\ net = NoNet

\* code = self._separate(keyword), main.py:53
SeparateCall ==
    /\ pc = "separate"
    /\ code' = Separate(keyword)
    /\ pc' = "done"
    /\ UNCHANGED <<http_client, init_task, terminated, blocked, config, keyword, tasks, worker,
                   cen_results, unc_results, all_results, cover, cover_image, fetches,
                   final_info, msgs, net>>

NextSeparate == SeparateCall

SpecSeparate == InitSeparate /\ [][NextSeparate]_vars

\* the positions of the text where rule k matches
StartsOf(k, t) == {i \in 1..Len(t) : MatchAt(k, t, i) # 0}

\* the first position of a non-empty set of positions
First(starts) == CHOOSE i \in starts : \A j \in starts : i <= j

\* the full span of the first match of rule k
FirstSpan(k, t) == SubSeq(t, First(StartsOf(k, t)), MatchAt(k, t, First(StartsOf(k, t))))

\* the text the rules see: the em dashes are hyphens
Seen == ReplaceEmDash(keyword)

\* C12: the code is the full span of the first match of the first rule, in
\* the order 1, 2, 3, 4, that matches anywhere in the text, and None if no
\* rule matches; so a text with a match of rule 1 gives that match, wherever
\* the other rules match.
C12_HighestPriorityRuleWins ==
    pc = "done" =>
       /\ \A k \in 1..4 :
             (StartsOf(k, Seen) # {} /\ \A j \in 1..(k - 1) : StartsOf(j, Seen) = {})
                => code = FirstSpan(k, Seen)
       /\ (\A k \in 1..4 : StartsOf(k, Seen) = {}) => code = NoCode
       /\ StartsOf(1, Seen) # {} => code = FirstSpan(1, Seen)

\* a match of rule 3 or of rule 4 is in the text before the first match of
\* rule 1, and the code is the match of rule 1
C12_Witness ==
    /\ pc = "done"
    /\ StartsOf(1, Seen) # {}
    /\ \E k \in {3, 4} : \E i \in StartsOf(k, Seen) : i < First(StartsOf(1, Seen))
    /\ code = FirstSpan(1, Seen)

(***************************************************************************)
(* The search under the scheduling of the event loop: every request that   *)
(* is in flight is answered, fails or times out (the ClientTimeout of      *)
(* main.py:33), and a coroutine that can go on is run.                     *)
(***************************************************************************)
Fairness ==
    /\ WF_vars(\E c \in Cats, i \in 1..(MaxEngines + 1) : CrawlRespond(c, i))
    /\ WF_vars(\E c \in Cats : WorkerReturn(c))
    /\ WF_vars(Aggregate)
    /\ WF_vars(DetailRespond)
    /\ WF_vars(ImageRespond)

FairSpec == Init /\ [][Next]_vars /\ Fairness

\* a search has started and has not ended
Searching == pc \in {"crawl", "detail", "image"}

\* the search has ended: with its final message, or with the exception of a
\* malformed engine string (C2)
Ended == pc \in {"done", "raised"}

\* C13: every search that has started ends: no branch, the jav777 rule's
\* follow-up request included, keeps the invocation from its end.
C13_EverySearchEnds == Searching ~> Ended

\* the search ends unless the event loop's thread is blocked at main.py:297:
\* the jav777 rule is the only branch that keeps a search from its end
C13_EndsUnlessBlocked == Searching ~> (Ended \/ blocked)

\* C14: once a call of terminate has returned and the task of main.py:27
\* has run, no open HTTP client remains.
C14_NoOpenClientAfterTerminate ==
    (terminated /\ init_task = "done") => http_client # "open"

\* the rest of C14: a client is created only where there was none, and a
\* closed client stays closed, so no client is created or closed twice
C14_CreatedOnceClosedOnce ==
    [][/\ (http_client' = "open" /\ http_client # "open") => http_client = None
       /\ http_client = "closed" => http_client' = "closed"]_vars

====
